---- MODULE Spec2Model ----
(***************************************************************************)
(* The HTTP client layer of arlox (src/src/client.rs): the process-wide    *)
(* HTTP cell (an RwLock<HttpClient>), set_cookie, remove_cookie and        *)
(* request, run by a fixed set of threads against a remote service whose   *)
(* answers are chosen nondeterministically.                                *)
(*                                                                         *)
(* ClientBuilder::build of set_cookie may fail and the code panics on it   *)
(* (line 78). Client::new is taken to succeed, as it did when the HTTP     *)
(* cell was initialised: it has no failure the code of client.rs handles.  *)
(***************************************************************************)
EXTENDS Integers, Sequences, FiniteSets, TLC

\* ------------------------------------------------------------- bounds
\* The threads of Spec, which runs them on every input.
NumThreads == 2

Threads == 1..NumThreads

\* The threads of FairSpec, which runs them on one input for each way a step can
\* go: enough of them for two requests to overlap while a third thread waits for
\* the write guard.
NumFairThreads == 3

FairThreads == 1..NumFairThreads

\* ------------------------------------------------------------- values
\* Option<T> as a sequence of length at most one.
None == <<>>
Some(x) == <<x>>

\* Header names, as http::HeaderMap stores them (lower case).
COOKIE == "cookie"
X_CSRF_TOKEN == "x-csrf-token"

\* HeaderMap::new()
HeaderMapNew == [n \in {} |-> ""]

\* HeaderMap::insert: the value of an existing name is replaced.
HeaderInsert(h, name, value) ==
    [n \in (DOMAIN h) \cup {name} |-> IF n = name THEN value ELSE h[n]]

\* A cookie is a str and the value of a Cookie header a HeaderValue: both are the
\* sequence of their bytes. Cookies a caller may pass to set_cookie: "c1", "c2"
\* and "c" followed by a line feed, which is no legal header value.
Cookies == {<<99, 49>>, <<99, 50>>, <<99, 10>>}

\* The empty str.
NoCookie == <<>>

\* HeaderValue::from_str(cookie) is Ok when every byte is valid: 32 or above and
\* not 127 (DEL), or 9 (the tab).
ValidHeaderValue(c) ==
    \A i \in 1..Len(c) : (c[i] >= 32 /\ c[i] # 127) \/ c[i] = 9

\* Values the remote service may put in the x-csrf-token header of the probe response.
Tokens == {"", "tokA"}

\* StatusCode::is_success
IsSuccess(status) == status >= 200 /\ status < 300

\* The one non-success status set_cookie accepts from the probe.
FORBIDDEN == 403

\* StatusCode::canonical_reason, with the Display fallback for a code that has
\* no canonical reason.
CanonicalReason(status) ==
    CASE status = 100 -> "Continue"
      [] status = 101 -> "Switching Protocols"
      [] status = 102 -> "Processing"
      [] status = 103 -> "Early Hints"
      [] status = 200 -> "OK"
      [] status = 201 -> "Created"
      [] status = 202 -> "Accepted"
      [] status = 203 -> "Non Authoritative Information"
      [] status = 204 -> "No Content"
      [] status = 205 -> "Reset Content"
      [] status = 206 -> "Partial Content"
      [] status = 207 -> "Multi-Status"
      [] status = 208 -> "Already Reported"
      [] status = 226 -> "IM Used"
      [] status = 300 -> "Multiple Choices"
      [] status = 301 -> "Moved Permanently"
      [] status = 302 -> "Found"
      [] status = 303 -> "See Other"
      [] status = 304 -> "Not Modified"
      [] status = 305 -> "Use Proxy"
      [] status = 307 -> "Temporary Redirect"
      [] status = 308 -> "Permanent Redirect"
      [] status = 400 -> "Bad Request"
      [] status = 401 -> "Unauthorized"
      [] status = 402 -> "Payment Required"
      [] status = 403 -> "Forbidden"
      [] status = 404 -> "Not Found"
      [] status = 405 -> "Method Not Allowed"
      [] status = 406 -> "Not Acceptable"
      [] status = 407 -> "Proxy Authentication Required"
      [] status = 408 -> "Request Timeout"
      [] status = 409 -> "Conflict"
      [] status = 410 -> "Gone"
      [] status = 411 -> "Length Required"
      [] status = 412 -> "Precondition Failed"
      [] status = 413 -> "Payload Too Large"
      [] status = 414 -> "URI Too Long"
      [] status = 415 -> "Unsupported Media Type"
      [] status = 416 -> "Range Not Satisfiable"
      [] status = 417 -> "Expectation Failed"
      [] status = 418 -> "I'm a teapot"
      [] status = 421 -> "Misdirected Request"
      [] status = 422 -> "Unprocessable Entity"
      [] status = 423 -> "Locked"
      [] status = 424 -> "Failed Dependency"
      [] status = 425 -> "Too Early"
      [] status = 426 -> "Upgrade Required"
      [] status = 428 -> "Precondition Required"
      [] status = 429 -> "Too Many Requests"
      [] status = 431 -> "Request Header Fields Too Large"
      [] status = 451 -> "Unavailable For Legal Reasons"
      [] status = 500 -> "Internal Server Error"
      [] status = 501 -> "Not Implemented"
      [] status = 502 -> "Bad Gateway"
      [] status = 503 -> "Service Unavailable"
      [] status = 504 -> "Gateway Timeout"
      [] status = 505 -> "HTTP Version Not Supported"
      [] status = 506 -> "Variant Also Negotiates"
      [] status = 507 -> "Insufficient Storage"
      [] status = 508 -> "Loop Detected"
      [] status = 510 -> "Not Extended"
      [] status = 511 -> "Network Authentication Required"
      [] OTHER -> "<unknown status code>"

\* StatusCode's Display: the code, a space, the canonical reason.
StatusToString(status) == ToString(status) \o " " \o CanonicalReason(status)

\* ------------------------------------------------------------- results
Unit == [type |-> "()"]

Ok(v) == [tag |-> "Ok", val |-> v, err |-> ""]
Err(e) == [tag |-> "Err", val |-> Unit, err |-> e]
Panic(msg) == [tag |-> "panic", val |-> Unit, err |-> msg]
NoResult == [tag |-> "none", val |-> Unit, err |-> ""]

\* ------------------------------------------------------------- the remote service
\* What send() hands back: a transport error or a response.
TransportError == [kind |-> "error"]

\* What send() hands back when the request could not be built: the error
\* Client::request kept for a url the transport does not take (line 94). Nothing
\* was sent.
BuilderError == [kind |-> "builder"]

\* What Client::request makes of "https://" and data.url (line 94): a request, or
\* an error when the transport refuses the url.
RequestBuilds == {"Ok", "Err"}

\* Probe responses (POST auth.roblox.com/v2/logout): status and x-csrf-token header.
ProbeStatuses == {200, 403, 404}
ProbeResponses ==
    [kind : {"response"}, status : ProbeStatuses, csrf : {None} \cup {Some(k) : k \in Tokens}]
ProbeOutcomes == {TransportError} \cup ProbeResponses

\* What ClientBuilder::build gives set_cookie (line 77): the client or an error.
BuildOutcomes == {"Ok", "Err"}

\* Response bodies: no JSON at all, a user object, or an error envelope
\* {"errors": [{"message": ...}, ...]}.
Entry(m) == [message |-> m]
Envelopes ==
    {<<>>, <<Entry("The user id is invalid.")>>,
     <<Entry("Too many requests"), Entry("The user id is invalid.")>>}
Bodies ==
    {[kind |-> "garbage", id |-> 0, errors |-> <<>>], [kind |-> "user", id |-> 1, errors |-> <<>>]}
        \cup {[kind |-> "errors", id |-> 0, errors |-> e] : e \in Envelopes}

RequestStatuses == {200, 404}
RequestResponses == [kind : {"response"}, status : RequestStatuses, body : Bodies]
RequestOutcomes == {TransportError} \cup RequestResponses

\* What send() itself hands back: a transport error, or a response of which the
\* status and the headers have arrived and the body is still to be read.
ResponseHeads == [kind : {"response"}, status : RequestStatuses]
SendOutcomes == {TransportError} \cup ResponseHeads

\* The types T a caller may ask request::<T> for.
Types == {"Value", "User"}

\* Request-specific headers of an HttpRequest (data.headers): none, a Cookie header
\* of the request's own ("own"), or an Accept header.
ACCEPT == "accept"
OwnCookie == <<111, 119, 110>>
OwnHeaders ==
    {None, Some([n \in {COOKIE} |-> OwnCookie]),
     Some([n \in {ACCEPT} |-> "application/json"])}

\* Request bodies of an HttpRequest (data.body).
OwnBodies == {None, Some("{\"userIds\": [1]}")}

\* The cookie a response sets with its Set-Cookie header, if it has one ("g=1").
SetCookies == {None, Some(<<103, 61, 49>>)}

\* serde_json decoding of a response body as T (res.json::<T>()): Some(value) or None.
\* serde_json::Value takes any JSON document, User only a user object.
DecodeAs(T, body) ==
    CASE body.kind = "garbage" -> None
      [] T = "Value" -> Some([type |-> "Value", json |-> body])
      [] T = "User" /\ body.kind = "user" -> Some([type |-> "User", id |-> body.id])
      [] OTHER -> None

\* The shape of crate::errors::RobloxAPIResponseErrors: a list `errors` of entries
\* that carry a message.
RobloxAPIResponseErrors(body) == body.kind = "errors"

\* res.json::<RobloxAPIResponseErrors>(): Some(errors) or None.
DecodeErrors(body) ==
    IF RobloxAPIResponseErrors(body) THEN Some(body.errors) ELSE None

\* reqwest::Error's Display for a failed send, for a request that could not be
\* built and for a failed decode.
TransportErrorText == "error sending request"
BuilderErrorText == "builder error"
DecodeErrorText == "error decoding response body"

\* ------------------------------------------------------------- state
VARIABLES
    HTTP,        \* the HttpClient in the RwLock: its transport configuration
    readers,     \* threads holding a read guard of HTTP
    writer,      \* the thread holding the write guard, if any
    poisoned,    \* the RwLock's poison flag
    pc,          \* where each thread is in its current call
    cookie,      \* set_cookie's argument, while the call runs
    data,        \* request's argument: [T, headers]
    res,         \* what send() returned to the thread
    sent,        \* the headers of the request the thread has in flight
    view,        \* the configuration read through the thread's read guard
    sends,       \* network sends of the thread's current call
    result,      \* what the call returned (or that it panicked)
    lastCommit,  \* history: the last swap that committed
    jar,         \* the cookies stored in the installed client's cookie store
    sent_body,   \* the body of the request the thread has in flight
    stale,       \* history: the set_cookie calls under way when remove_cookie last returned
    call         \* the last call of a UserClient method: what it dispatched and returned

vars == <<HTTP, readers, writer, poisoned, pc, cookie, data, res, sent, view,
          sends, result, lastCommit, jar, sent_body, stale, call>>

\* The state of the shared HTTP client and of the threads calling it.
clientVars == <<HTTP, readers, writer, poisoned, pc, cookie, data, res, sent, view,
                sends, result, lastCommit, jar, sent_body, stale>>

\* Client::new(): no default headers, no cookie store. (The headers reqwest adds on
\* its own to every client, such as accept, are the same in every configuration and
\* are left out.)
ClientNew == [default_headers |-> HeaderMapNew, cookie_store |-> FALSE]

\* HttpClient::new()
HttpClientNew == [client |-> ClientNew]

\* Client::builder().default_headers(headers).cookie_store(true).build()
ClientBuild(headers) == [default_headers |-> headers, cookie_store |-> TRUE]

\* The cookie store of a client that was just built: empty (and never used when
\* the client was built without cookie_store).
CookieStoreNew == {}

\* What a client does with a response's Set-Cookie header: with cookie_store on it
\* is kept in the client's store, through the shared reference the request was
\* made on.
CookieStoreSet(client, stored, sc) ==
    IF client.cookie_store /\ sc # None THEN stored \cup {sc[1]} ELSE stored

\* The headers set_cookie builds: the cookie (line 54), then the token (line 73).
CookieHeaders(c) == HeaderInsert(HeaderMapNew, COOKIE, c)

\* Mutant of AuthHeaders: the token is never inserted.
AuthHeadersCookieOnly(c, csrf) == CookieHeaders(c)

AuthHeaders(c, csrf) == HeaderInsert(CookieHeaders(c), X_CSRF_TOKEN, csrf)

\* Mutant of OutboundHeaders: the request's own headers replace the defaults.
OutboundOwnOnly(client, own) == IF own = None THEN HeaderMapNew ELSE own[1]

\* Mutant of OutboundHeaders: a default header replaces the request's own header of
\* the same name.
OutboundDefaultsWin(client, own) ==
    LET h == IF own = None THEN HeaderMapNew ELSE own[1]
        d == client.default_headers
    IN  [n \in (DOMAIN h) \cup (DOMAIN d) |-> IF n \in DOMAIN d THEN d[n] ELSE h[n]]

\* The headers of an outbound request: RequestBuilder::headers puts the request's
\* own headers, then the client adds each default header whose name is still vacant.
OutboundHeaders(client, own) ==
    LET h == IF own = None THEN HeaderMapNew ELSE own[1]
        d == client.default_headers
    IN  [n \in (DOMAIN h) \cup (DOMAIN d) |-> IF n \in DOMAIN h THEN h[n] ELSE d[n]]

\* After the default headers the client adds the stored cookies as the cookie
\* header, when it has a cookie store and the request has no cookie header yet.
AddCookieHeader(h, client, stored) ==
    IF client.cookie_store /\ COOKIE \notin DOMAIN h /\ stored # {}
    THEN HeaderInsert(h, COOKIE, CHOOSE c \in stored : TRUE)
    ELSE h

\* data.body.unwrap_or_default(): String::default() is the empty string.
BodyOrDefault(body) == IF body = None THEN "" ELSE body[1]

NoCall == [name |-> "none", reqs |-> <<>>, res |-> NoResult, ret |-> NoResult]
NoData == [T |-> "", headers |-> None, body |-> None]
NoResponse == [kind |-> "none"]
Fresh == [op |-> "new", cookie |-> NoCookie, token |-> ""]

\* The process before any call, with the threads of S: the HTTP cell as lazy_static
\* initialises it (lines 14-19) and every thread idle.
InitOf(S) ==
    /\ HTTP = HttpClientNew
    /\ readers = {}
    /\ writer = None
    /\ poisoned = FALSE
    /\ pc = [t \in S |-> "idle"]
    /\ cookie = [t \in S |-> NoCookie]
    /\ data = [t \in S |-> NoData]
    /\ res = [t \in S |-> NoResponse]
    /\ sent = [t \in S |-> None]
    /\ view = [t \in S |-> None]
    /\ sends = [t \in S |-> 0]
    /\ result = [t \in S |-> NoResult]
    /\ lastCommit = Fresh
    /\ jar = {}
    /\ sent_body = [t \in S |-> None]
    /\ stale = {}
    /\ call = NoCall

Init == InitOf(Threads)

\* ------------------------------------------------------------- the RwLock
\* RwLock::read() returns once no writer holds the lock.
CanRead == writer = None

\* RwLock::write() returns once nobody holds the lock.
CanWrite == writer = None /\ readers = {}

\* A thread that panics unwinds out of its call and ends.
Panicked(t, msg) ==
    /\ pc' = [pc EXCEPT ![t] = "panicked"]
    /\ result' = [result EXCEPT ![t] = Panic(msg)]

Returned(t, at, r) ==
    /\ pc' = [pc EXCEPT ![t] = at]
    /\ result' = [result EXCEPT ![t] = r]

\* ------------------------------------------------------------- set_cookie
\* Mutant of StatusAcceptable: the status check is missing.
StatusUnchecked(status) == TRUE

\* Line 63: the probe's status is acceptable when it is a success or 403.
StatusAcceptable(status) == IsSuccess(status) \/ status = FORBIDDEN

\* Mutant of SetCookieCheck: the token is looked for before the status is checked.
SetCookieCheckTokenFirst(r) ==
    IF r.csrf = None THEN Some(Err("Failed to fetch X-CSRF-TOKEN"))
    ELSE IF ~StatusAcceptable(r.status) THEN Some(Err("Invalid cookie"))
    ELSE None

\* Lines 63-71: the early returns of set_cookie on a probe response;
\* None when the call goes on to the swap.
SetCookieCheck(r) ==
    IF ~StatusAcceptable(r.status) THEN Some(Err("Invalid cookie"))
    ELSE IF r.csrf = None THEN Some(Err("Failed to fetch X-CSRF-TOKEN"))
    ELSE None

\* Mutant of SetCookieClient: the token of the last authentication is reused when
\* there is one, instead of the one the probe just returned.
SetCookieClientCachedToken(c, r) ==
    ClientBuild(AuthHeaders(c, IF lastCommit.op = "set_cookie" THEN lastCommit.token
                               ELSE r.csrf[1]))

\* Lines 73-78: the client set_cookie installs.
SetCookieClient(c, r) == ClientBuild(AuthHeaders(c, r.csrf[1]))

\* Mutant of set_cookie_send: the write guard is taken before the probe is sent and
\* held while it is in flight.
set_cookie_send_locked(t, c) ==
    /\ pc[t] = "idle"
    /\ ValidHeaderValue(c)
    /\ CanWrite
    /\ writer' = Some(t)
    /\ pc' = [pc EXCEPT ![t] = "sc_sent"]
    /\ cookie' = [cookie EXCEPT ![t] = c]
    /\ sent' = [sent EXCEPT ![t] = Some(CookieHeaders(c))]
    /\ sends' = [sends EXCEPT ![t] = sends[t] + 1]
    /\ UNCHANGED <<HTTP, readers, poisoned, data, res, view, result, lastCommit,
                   jar, sent_body, call, stale>>

\* Lines 53-60: build the cookie header and send the probe with a fresh client.
set_cookie_send(t, c) ==
    /\ pc[t] = "idle"
    /\ IF ~ValidHeaderValue(c)
       THEN /\ Panicked(t, "unwrap on Err: InvalidHeaderValue")
            /\ UNCHANGED <<cookie, sent, sends>>
       ELSE /\ pc' = [pc EXCEPT ![t] = "sc_sent"]
            /\ cookie' = [cookie EXCEPT ![t] = c]
            /\ sent' = [sent EXCEPT ![t] = Some(CookieHeaders(c))]
            /\ sends' = [sends EXCEPT ![t] = sends[t] + 1]
            /\ UNCHANGED result
    /\ UNCHANGED <<HTTP, readers, writer, poisoned, data, res, view, lastCommit,
                   jar, sent_body, call, stale>>

\* Lines 60-78 up to self.write(): send() returns; unwrap, then the status and
\* token checks, then the right-hand side of the assignment of line 74, which
\* Rust evaluates before self.write(): build() and its expect (lines 75-78).
\* No guard is held in any of it.
set_cookie_recv(t, r, built) ==
    /\ pc[t] = "sc_sent"
    /\ res' = [res EXCEPT ![t] = r]
    /\ sent' = [sent EXCEPT ![t] = None]
    /\ IF r.kind = "error"
       THEN /\ Panicked(t, "unwrap on Err: reqwest::Error")
            /\ cookie' = [cookie EXCEPT ![t] = NoCookie]
       ELSE IF SetCookieCheck(r) # None
       THEN /\ Returned(t, "sc_done", SetCookieCheck(r)[1])
            /\ cookie' = [cookie EXCEPT ![t] = NoCookie]
       ELSE IF built = "Err"
       THEN /\ Panicked(t, "Failed to build HTTP client")
            /\ cookie' = [cookie EXCEPT ![t] = NoCookie]
       ELSE /\ pc' = [pc EXCEPT ![t] = "sc_write"]
            /\ UNCHANGED <<cookie, result>>
    /\ stale' = IF r.kind # "error" /\ SetCookieCheck(r) = None /\ built = "Ok"
              THEN stale ELSE stale \ {t}
    /\ UNCHANGED <<HTTP, readers, writer, poisoned, data, view, sends, lastCommit,
                   jar, sent_body, call>>

\* Line 74: self.write().expect(..), after the new client was built.
set_cookie_write(t) ==
    /\ pc[t] = "sc_write"
    /\ CanWrite
    /\ IF poisoned
       THEN /\ Panicked(t, "Failed to modify HTTP client")
            /\ UNCHANGED writer
       ELSE /\ writer' = Some(t)
            /\ pc' = [pc EXCEPT ![t] = "sc_locked"]
            /\ UNCHANGED result
    /\ UNCHANGED <<HTTP, readers, poisoned, cookie, data, res, sent, view, sends, lastCommit,
                   jar, sent_body, call, stale>>

\* Mutant of set_cookie_commit: the client is installed but the write guard is never
\* dropped.
set_cookie_commit_leak(t) ==
    /\ pc[t] = "sc_locked"
    /\ HTTP' = [HTTP EXCEPT !.client = SetCookieClient(cookie[t], res[t])]
    /\ lastCommit' = [op |-> "set_cookie", cookie |-> cookie[t], token |-> res[t].csrf[1]]
    /\ Returned(t, "sc_done", Ok(Unit))
    /\ cookie' = [cookie EXCEPT ![t] = NoCookie]
    /\ jar' = CookieStoreNew
    /\ UNCHANGED <<writer, readers, poisoned, data, res, sent, view, sends, sent_body, call,
                   stale>>

\* Mutant of set_cookie_commit: the new client is built under the write guard and
\* the build may fail, which unwinds through the guard and poisons the lock.
set_cookie_commit_fallible(t) ==
    /\ pc[t] = "sc_locked"
    /\ writer' = None
    /\ cookie' = [cookie EXCEPT ![t] = NoCookie]
    /\ \/ /\ HTTP' = [HTTP EXCEPT !.client = SetCookieClient(cookie[t], res[t])]
          /\ lastCommit' = [op |-> "set_cookie", cookie |-> cookie[t],
                            token |-> res[t].csrf[1]]
          /\ Returned(t, "sc_done", Ok(Unit))
          /\ jar' = CookieStoreNew
          /\ UNCHANGED poisoned
       \/ /\ Panicked(t, "Failed to build HTTP client")
          /\ poisoned' = TRUE
          /\ UNCHANGED <<HTTP, lastCommit, jar>>
    /\ UNCHANGED <<readers, data, res, sent, view, sends, sent_body, call, stale>>

\* Mutant of set_cookie_commit: the new client is built on the cookie store of the
\* client it replaces (one Jar shared by every client, as cookie_provider allows).
set_cookie_commit_shared_jar(t) ==
    /\ pc[t] = "sc_locked"
    /\ HTTP' = [HTTP EXCEPT !.client = SetCookieClient(cookie[t], res[t])]
    /\ writer' = None
    /\ lastCommit' = [op |-> "set_cookie", cookie |-> cookie[t], token |-> res[t].csrf[1]]
    /\ Returned(t, "sc_done", Ok(Unit))
    /\ cookie' = [cookie EXCEPT ![t] = NoCookie]
    /\ UNCHANGED <<readers, poisoned, data, res, sent, view, sends, jar, sent_body, call,
                   stale>>

\* Lines 74-80: the assignment through the write guard, the guard's drop, Ok(()).
\* The client that is dropped takes its cookie store with it.
set_cookie_commit(t) ==
    /\ pc[t] = "sc_locked"
    /\ HTTP' = [HTTP EXCEPT !.client = SetCookieClient(cookie[t], res[t])]
    /\ writer' = None
    /\ lastCommit' = [op |-> "set_cookie", cookie |-> cookie[t], token |-> res[t].csrf[1]]
    /\ jar' = CookieStoreNew
    /\ Returned(t, "sc_done", Ok(Unit))
    /\ cookie' = [cookie EXCEPT ![t] = NoCookie]
    /\ UNCHANGED <<readers, poisoned, data, res, sent, view, sends, sent_body, call, stale>>

\* ------------------------------------------------------------- remove_cookie
\* Line 84, right-hand side: Client::new() is evaluated before the lock is taken.
remove_cookie_call(t) ==
    /\ pc[t] = "idle"
    /\ pc' = [pc EXCEPT ![t] = "rc_write"]
    /\ UNCHANGED <<HTTP, readers, writer, poisoned, cookie, data, res, sent, view,
                   sends, result, lastCommit, jar, sent_body, call, stale>>

\* Line 84: self.write().expect(..)
remove_cookie_write(t) ==
    /\ pc[t] = "rc_write"
    /\ CanWrite
    /\ IF poisoned
       THEN /\ Panicked(t, "Failed to modify HTTP client")
            /\ UNCHANGED writer
       ELSE /\ writer' = Some(t)
            /\ pc' = [pc EXCEPT ![t] = "rc_locked"]
            /\ UNCHANGED result
    /\ UNCHANGED <<HTTP, readers, poisoned, cookie, data, res, sent, view, sends, lastCommit,
                   jar, sent_body, call, stale>>

\* The set_cookie calls that have sent their probe and have not committed.
SetCookieUnderWay == {u \in DOMAIN pc : pc[u] \in {"sc_sent", "sc_write"}}

\* Mutant of remove_cookie_commit: only the cookie is taken out of the default
\* headers; the token and the cookie store stay.
remove_cookie_commit_cookie_only(t) ==
    /\ pc[t] = "rc_locked"
    /\ HTTP' = [HTTP EXCEPT !.client.default_headers =
                   [n \in (DOMAIN @) \ {COOKIE} |-> @[n]]]
    /\ writer' = None
    /\ lastCommit' = [op |-> "remove_cookie", cookie |-> NoCookie, token |-> ""]
    /\ stale' = SetCookieUnderWay
    /\ Returned(t, "rc_done", Ok(Unit))
    /\ UNCHANGED <<readers, poisoned, cookie, data, res, sent, view, sends, sent_body, call,
                   jar>>

\* Mutant of remove_cookie_commit: the guard is taken and dropped, the client kept.
remove_cookie_keep(t) ==
    /\ pc[t] = "rc_locked"
    /\ writer' = None
    /\ lastCommit' = [op |-> "remove_cookie", cookie |-> NoCookie, token |-> ""]
    /\ stale' = SetCookieUnderWay
    /\ Returned(t, "rc_done", Ok(Unit))
    /\ UNCHANGED <<HTTP, readers, poisoned, cookie, data, res, sent, view, sends,
                   jar, sent_body, call>>

\* Mutant of remove_cookie_commit: the new client is built with the cookie store on.
remove_cookie_commit_store(t) ==
    /\ pc[t] = "rc_locked"
    /\ HTTP' = [HTTP EXCEPT !.client = ClientBuild(HeaderMapNew)]
    /\ writer' = None
    /\ lastCommit' = [op |-> "remove_cookie", cookie |-> NoCookie, token |-> ""]
    /\ jar' = CookieStoreNew
    /\ stale' = SetCookieUnderWay
    /\ Returned(t, "rc_done", Ok(Unit))
    /\ UNCHANGED <<readers, poisoned, cookie, data, res, sent, view, sends, sent_body, call>>

\* Line 84: the assignment through the write guard and the guard's drop.
remove_cookie_commit(t) ==
    /\ pc[t] = "rc_locked"
    /\ HTTP' = [HTTP EXCEPT !.client = ClientNew]
    /\ writer' = None
    /\ lastCommit' = [op |-> "remove_cookie", cookie |-> NoCookie, token |-> ""]
    /\ jar' = CookieStoreNew
    /\ stale' = SetCookieUnderWay
    /\ Returned(t, "rc_done", Ok(Unit))
    /\ UNCHANGED <<readers, poisoned, cookie, data, res, sent, view, sends, sent_body, call>>

\* ------------------------------------------------------------- request
\* Mutant of ErrorOf: the last entry of the envelope instead of the first.
ErrorOfLast(errors) ==
    IF Len(errors) = 0
    THEN Panic("Unknown error")
    ELSE Err(errors[Len(errors)].message)

\* Lines 113-118: errors.first().expect("Unknown error"), then Err(error.message).
ErrorOf(errors) ==
    IF Len(errors) = 0
    THEN Panic("Unknown error")
    ELSE Err(Head(errors).message)

\* Mutant of Classify: the error envelope is tried before the status is looked at.
ClassifyEnvelopeFirst(T, r) ==
    IF r.kind = "error" THEN Err(TransportErrorText)
    ELSE IF r.kind = "builder" THEN Err(BuilderErrorText)
    ELSE IF DecodeErrors(r.body) # None THEN ErrorOf(DecodeErrors(r.body)[1])
    ELSE IF IsSuccess(r.status)
    THEN LET body == DecodeAs(T, r.body)
         IN  IF body # None THEN Ok(body[1]) ELSE Err(DecodeErrorText)
    ELSE Err(StatusToString(r.status))

\* Lines 99-125: the classification of what send() returned. An Err of send(),
\* whichever it is, is returned as its text (line 124).
Classify(T, r) ==
    IF r.kind = "error" THEN Err(TransportErrorText)
    ELSE IF r.kind = "builder" THEN Err(BuilderErrorText)
    ELSE IF IsSuccess(r.status)
    THEN LET body == DecodeAs(T, r.body)
         IN  IF body # None THEN Ok(body[1]) ELSE Err(DecodeErrorText)
    ELSE LET body == DecodeErrors(r.body)
         IN  IF body # None
             THEN ErrorOf(body[1])
             ELSE Err(StatusToString(r.status))

\* Mutant of ReadersWhileSending: the guard is dropped before the request is sent
\* (the client taken out of the guard first).
ReadersGuardDropped(t) == readers

\* The read guard is a temporary of the statement of lines 90-97: it lives until
\* send() has returned.
ReadersWhileSending(t) == readers \cup {t}

\* request::<T>(data) is called.
request_call(t, T, own, body) ==
    /\ pc[t] = "idle"
    /\ pc' = [pc EXCEPT ![t] = "rq_read"]
    /\ data' = [data EXCEPT ![t] = [T |-> T, headers |-> own, body |-> body]]
    /\ UNCHANGED <<HTTP, readers, writer, poisoned, cookie, res, sent, view, sends,
                   result, lastCommit, jar, sent_body, call, stale>>

\* Lines 90-97: take the read guard, build the request on the client and send it.
\* When the request could not be built (req = "Err") send() returns the builder
\* error at once: nothing goes to the network, the statement ends, the guard is
\* dropped, and line 124 returns the error's text.
request_send(t, req) ==
    /\ pc[t] = "rq_read"
    /\ CanRead
    /\ IF poisoned
       THEN /\ Panicked(t, "Failed to read HTTP client")
            /\ UNCHANGED <<readers, view, sent, sent_body, sends, res, data>>
       ELSE IF req = "Err"
       THEN /\ res' = [res EXCEPT ![t] = BuilderError]
            /\ data' = [data EXCEPT ![t].headers = None, ![t].body = None]
            /\ Returned(t, "rq_done", Classify(data[t].T, BuilderError))
            /\ UNCHANGED <<readers, view, sent, sent_body, sends>>
       ELSE /\ readers' = ReadersWhileSending(t)
            /\ view' = [view EXCEPT ![t] = Some(HTTP)]
            /\ sent' = [sent EXCEPT ![t] =
                   Some(AddCookieHeader(OutboundHeaders(HTTP.client, data[t].headers),
                                        HTTP.client, jar))]
            /\ sent_body' = [sent_body EXCEPT ![t] = Some(BodyOrDefault(data[t].body))]
            /\ sends' = [sends EXCEPT ![t] = sends[t] + 1]
            /\ pc' = [pc EXCEPT ![t] = "rq_sent"]
            /\ UNCHANGED <<result, res, data>>
    /\ UNCHANGED <<HTTP, writer, poisoned, cookie, lastCommit, jar, call, stale>>

\* Lines 97-101 and 124: send() returns (a response's Set-Cookie header, sc, goes to
\* the client's cookie store) and the statement ends, dropping the read guard. A
\* transport error is returned at once (line 124); of a response only the status and
\* the headers are there, and the call goes on to read the body.
request_recv(t, r, sc) ==
    /\ pc[t] = "rq_sent"
    /\ res' = [res EXCEPT ![t] = r]
    /\ jar' = IF r.kind = "error" THEN jar ELSE CookieStoreSet(HTTP.client, jar, sc)
    /\ readers' = readers \ {t}
    /\ view' = [view EXCEPT ![t] = None]
    /\ sent' = [sent EXCEPT ![t] = None]
    /\ sent_body' = [sent_body EXCEPT ![t] = None]
    /\ data' = [data EXCEPT ![t].headers = None, ![t].body = None]
    /\ IF r.kind = "error"
       THEN Returned(t, "rq_done", Classify(data[t].T, r))
       ELSE /\ pc' = [pc EXCEPT ![t] = "rq_json"]
            /\ UNCHANGED result
    /\ UNCHANGED <<HTTP, writer, poisoned, cookie, sends, lastCommit, call, stale>>

\* Lines 101-122: res.json() reads the body from the network, with no guard held,
\* and the call returns what the status and the decoded body make of it.
request_json(t, body) ==
    /\ pc[t] = "rq_json"
    /\ LET r == [kind |-> "response", status |-> res[t].status, body |-> body]
           out == Classify(data[t].T, r)
       IN  /\ res' = [res EXCEPT ![t] = r]
           /\ IF out.tag = "panic" THEN Panicked(t, out.err)
              ELSE Returned(t, "rq_done", out)
    /\ UNCHANGED <<HTTP, readers, writer, poisoned, cookie, data, sent, view, sends,
                   lastCommit, jar, sent_body, call, stale>>

\* ------------------------------------------------------------- callers
\* The caller takes the call's result and is free to make its next call.
Return(t) ==
    /\ pc[t] \in {"sc_done", "rc_done", "rq_done"}
    /\ pc' = [pc EXCEPT ![t] = "idle"]
    /\ cookie' = [cookie EXCEPT ![t] = NoCookie]
    /\ data' = [data EXCEPT ![t] = NoData]
    /\ res' = [res EXCEPT ![t] = NoResponse]
    /\ sends' = [sends EXCEPT ![t] = 0]
    /\ result' = [result EXCEPT ![t] = NoResult]
    /\ stale' = stale \ {t}
    /\ UNCHANGED <<HTTP, readers, writer, poisoned, sent, view, lastCommit, jar, sent_body,
                   call>>

Next ==
    \E t \in Threads :
        \/ \E c \in Cookies : set_cookie_send(t, c)
        \/ \E r \in ProbeOutcomes, built \in BuildOutcomes : set_cookie_recv(t, r, built)
        \/ set_cookie_write(t)
        \/ set_cookie_commit(t)
        \/ remove_cookie_call(t)
        \/ remove_cookie_write(t)
        \/ remove_cookie_commit(t)
        \/ \E T \in Types, own \in OwnHeaders, body \in OwnBodies :
               request_call(t, T, own, body)
        \/ \E req \in RequestBuilds : request_send(t, req)
        \/ \E r \in SendOutcomes, sc \in SetCookies : request_recv(t, r, sc)
        \/ \E body \in Bodies : request_json(t, body)
        \/ Return(t)

\* ------------------------------------------------------------- UserClient
\* Longest data list of a response.
MaxData == 2

UserIds == {1, 2}
Usernames == {"builderman", "roblox"}
Limits == {10, 25}

\* The argument lists fetch_many and find_many are called with.
IdLists == {<<>>, <<1, 2>>, <<2, 2>>}
UsernameLists == {<<>>, <<"roblox", "builderman">>}

\* PartialUser, User and UserId as serde decodes them (fields by their Rust names).
PartialUser == [username : Usernames, display_name : {"Builder"}, id : UserIds]
User ==
    [username : Usernames, description : {""}, created : {"2006-03-08"},
     is_banned : BOOLEAN, external_app_display_name : {None},
     has_verified_badge : {FALSE}, id : UserIds, display_name : {"Builder"}]
UserId == [id : UserIds]

\* Vec<T> up to the bound.
Vec(S) == UNION {[1..n -> S] : n \in 0..MaxData}

\* crate::models::DataResponse<T>: a list wrapped under a data field.
DataResponse(S) == [data : Vec(S)]

\* crate::models::ENDPOINTS: the hosts of the endpoint paths.
ENDPOINTS == [users |-> "users.roblox.com", base |-> "api.roblox.com"]

\* What request::<B, T> of crate::utilities::client hands back: Ok with the decoded
\* T, or Err with a text.
RequestErrors == {"404 Not Found", "error decoding response body"}
RequestResults(S) == {Ok(v) : v \in S} \cup {Err(e) : e \in RequestErrors}

\* The HttpRequest of crate::utilities::client.
UserHttpRequest(m, e, b) == [body |-> b, method |-> m, endpoint |-> e]

\* The bodies fetch_many and find_many serialize (serde, camelCase).
FetchMany(ids, exclude_banned) == [excludeBannedUsers |-> exclude_banned, userIds |-> ids]
FindMany(usernames, exclude_banned) ==
    [excludeBannedUsers |-> exclude_banned, usernames |-> usernames]

\* HashMap::insert: the value of a key already present is replaced.
HashMapInsert(m, k, v) == [x \in (DOMAIN m) \cup {k} |-> IF x = k THEN v ELSE m[x]]

\* Mutant of Collect: a key already present keeps its value.
RECURSIVE CollectKeepFirst(_)
CollectKeepFirst(pairs) ==
    IF Len(pairs) = 0 THEN <<>>
    ELSE LET m == CollectKeepFirst(SubSeq(pairs, 1, Len(pairs) - 1))
             p == pairs[Len(pairs)]
         IN  IF p[1] \in DOMAIN m THEN m ELSE HashMapInsert(m, p[1], p[2])

\* Iterator::collect into a HashMap: the pairs are inserted in the list's order.
RECURSIVE Collect(_)
Collect(pairs) ==
    IF Len(pairs) = 0 THEN <<>>
    ELSE LET p == pairs[Len(pairs)]
         IN  HashMapInsert(Collect(SubSeq(pairs, 1, Len(pairs) - 1)), p[1], p[2])

\* Result::map: Ok(v) becomes Ok of the closure's value (mapped, which is read only
\* for an Ok), an Err is handed on as it is.
ResultMap(r, mapped) == IF r.tag = "Ok" THEN Ok(mapped) ELSE r

\* One call of a method: the requests it dispatched, what the dispatch returned and
\* what the method returned.
Called(name, req, r, ret) == [name |-> name, reqs |-> <<req>>, res |-> r, ret |-> ret]

fetch(id, r) ==
    /\ call' = Called("fetch",
                      UserHttpRequest("GET", ENDPOINTS.users \o "/v1/users/" \o ToString(id), None),
                      r, r)
    /\ UNCHANGED clientVars

authenticated(r) ==
    /\ call' = Called("authenticated",
                      UserHttpRequest("GET", ENDPOINTS.users \o "/v1/users/authenticated", None),
                      r, r)
    /\ UNCHANGED clientVars

partial(id, r) ==
    /\ call' = Called("partial",
                      UserHttpRequest("GET", ENDPOINTS.users \o "/v1/users/" \o ToString(id), None),
                      r, r)
    /\ UNCHANGED clientVars

\* UserClient::id
id_by_username(username, r) ==
    LET F(v) == v.id
    IN  /\ call' = Called("id",
                          UserHttpRequest("GET", ENDPOINTS.base \o "/users/get-by-username?username="
                                                     \o username, None),
                          r, ResultMap(r, F(r.val)))
        /\ UNCHANGED clientVars

search(keyword, limit, r) ==
    LET F(v) == v.data
    IN  /\ call' = Called("search",
                          UserHttpRequest("GET", ENDPOINTS.users \o "/v1/users/search?keyword="
                                                     \o keyword \o "&limit=" \o ToString(limit), None),
                          r, ResultMap(r, F(r.val)))
        /\ UNCHANGED clientVars

fetch_many(ids, exclude_banned, r) ==
    LET F(v) == Collect([i \in DOMAIN v.data |-> <<v.data[i].id, v.data[i].username>>])
    IN  /\ call' = Called("fetch_many",
                          UserHttpRequest("POST", ENDPOINTS.users \o "/v1/users",
                                          Some(FetchMany(ids, exclude_banned))),
                          r, ResultMap(r, F(r.val)))
        /\ UNCHANGED clientVars

find_many(usernames, exclude_banned, r) ==
    LET F(v) == Collect([i \in DOMAIN v.data |-> <<v.data[i].username, v.data[i].id>>])
    IN  /\ call' = Called("find_many",
                          UserHttpRequest("POST", ENDPOINTS.users \o "/v1/usernames/users",
                                          Some(FindMany(usernames, exclude_banned))),
                          r, ResultMap(r, F(r.val)))
        /\ UNCHANGED clientVars

username_history(id, r) ==
    LET F(v) == v.data
    IN  /\ call' = Called("username_history",
                          UserHttpRequest("GET", ENDPOINTS.users \o "/v1/users/" \o ToString(id)
                                                     \o "/username-history", None),
                          r, ResultMap(r, F(r.val)))
        /\ UNCHANGED clientVars

NextUsers ==
    \/ \E i \in UserIds, r \in RequestResults(User) : fetch(i, r)
    \/ \E r \in RequestResults(PartialUser) : authenticated(r)
    \/ \E i \in UserIds, r \in RequestResults(PartialUser) : partial(i, r)
    \/ \E u \in Usernames, r \in RequestResults(UserId) : id_by_username(u, r)
    \/ \E k \in Usernames, l \in Limits, r \in RequestResults(DataResponse(PartialUser)) :
           search(k, l, r)
    \/ \E ids \in IdLists, b \in BOOLEAN, r \in RequestResults(DataResponse(PartialUser)) :
           fetch_many(ids, b, r)
    \/ \E us \in UsernameLists, b \in BOOLEAN, r \in RequestResults(DataResponse(PartialUser)) :
           find_many(us, b, r)
    \/ \E i \in UserIds, r \in RequestResults(DataResponse(Usernames)) : username_history(i, r)

\* ------------------------------------------------------------- properties
\* What the properties below call things, stated without the model's operators.
IsRequestCall(t) == data[t].T # ""
HasCookie(h) == COOKIE \in DOMAIN h
HasToken(h) == X_CSRF_TOKEN \in DOMAIN h
Anonymous(client) == client.default_headers = HeaderMapNew /\ ~client.cookie_store
Authenticated(client) == HasCookie(client.default_headers) /\ HasToken(client.default_headers)
ProbeGood(r) ==
    /\ r.kind = "response"
    /\ (r.status \in 200..299 \/ r.status = 403)
    /\ r.csrf # None
Non2xx(r) == r.kind = "response" /\ r.status \notin 200..299

\* C1: the configuration a dispatch reads (and the cell itself, at every instant) is
\* fully anonymous or fully authenticated: never exactly one of the cookie and the
\* anti-forgery token among the default headers; a dispatch without headers of its
\* own sends both or neither.
C1_NoHalfConfiguration ==
    /\ Anonymous(HTTP.client) \/ Authenticated(HTTP.client)
    /\ \A t \in Threads :
        /\ view[t] # None =>
              Anonymous(view[t][1].client) \/ Authenticated(view[t][1].client)
        /\ (pc[t] = "rq_sent" /\ data[t].headers = None) =>
              (HasCookie(sent[t][1]) <=> HasToken(sent[t][1]))

\* A dispatch holds an authenticated view while an authenticate is in flight.
C1_Witness ==
    \E t, u \in Threads :
        /\ pc[t] = "rq_sent" /\ Authenticated(view[t][1].client)
        /\ pc[u] \in {"sc_sent", "sc_write"}

\* C2: a step of a set_cookie call whose probe failed (transport failure, status
\* outside 2xx and 403, token header absent), whose cookie is no header value or
\* whose new client could not be built leaves HTTP as it is and ends the call
\* without Ok; the only set_cookie steps that change HTTP belong to calls whose
\* probe was good.
C2_FailedAuthKeepsState ==
    [][\A t \in Threads :
          /\ (pc[t] = "sc_sent" /\ pc'[t] # pc[t] /\ ~ProbeGood(res'[t])) =>
                /\ HTTP' = HTTP
                /\ pc'[t] \in {"sc_done", "panicked"}
                /\ result'[t].tag \in {"Err", "panic"}
          /\ (pc[t] \in {"idle", "sc_sent"} /\ pc'[t] = "panicked") => HTTP' = HTTP
          /\ (pc[t] \in {"sc_sent", "sc_write", "sc_locked"} /\ pc'[t] # pc[t]
                /\ HTTP' # HTTP) => ProbeGood(res[t])
      ]_vars

\* A set_cookie call has failed in state Authenticated, which is still there.
C2_Witness ==
    \E t \in Threads :
        /\ pc[t] = "sc_done" /\ result[t].tag = "Err"
        /\ Authenticated(HTTP.client)
        /\ lastCommit.op = "set_cookie"

\* C3 (as claimed): a request answered with a non-2xx status and an empty or
\* malformed error envelope returns Err of the status text.
C3_EmptyOrMalformedIsStatusErr ==
    \A t \in Threads :
        (/\ IsRequestCall(t)
         /\ pc[t] \in {"rq_done", "panicked"}
         /\ Non2xx(res[t])
         /\ (res[t].body.kind # "errors" \/ res[t].body.errors = <<>>))
        => result[t] = Err(StatusToString(res[t].status))

\* C4: a request answered with a non-2xx status and an error envelope of at least
\* one entry returns Err of the first entry's message, whatever T and the rest.
C4_FirstErrorWins ==
    \A t \in Threads :
        (/\ IsRequestCall(t)
         /\ pc[t] \in {"rq_done", "panicked"}
         /\ Non2xx(res[t])
         /\ res[t].body.kind = "errors"
         /\ Len(res[t].body.errors) >= 1)
        => /\ pc[t] = "rq_done"
           /\ result[t] = Err(res[t].body.errors[1].message)

\* A request for a User got a two-entry envelope and returned the first message.
C4_Witness ==
    \E t \in Threads :
        /\ pc[t] = "rq_done" /\ data[t].T = "User"
        /\ Non2xx(res[t])
        /\ res[t].body.kind = "errors" /\ Len(res[t].body.errors) = 2
        /\ result[t].tag = "Err" /\ result[t].err = "Too many requests"

\* C5 (as claimed): a set_cookie call whose probe failed at the transport level
\* returns an error value to its caller.
C5_TransportFailureIsErr ==
    \A t \in Threads :
        (~IsRequestCall(t) /\ res[t].kind = "error")
        => (pc[t] = "sc_done" /\ result[t].tag = "Err")

\* C6 (as claimed): a set_cookie call that got a probe response returns Ok exactly
\* when the status is 2xx or 403 and the x-csrf-token header is there; any other
\* status gives Err("Invalid cookie"), token or not; an acceptable status without the
\* token gives Err("Failed to fetch X-CSRF-TOKEN"). A call with a good probe is on
\* its way to the swap or has returned Ok.
C6_AuthOutcome ==
    \A t \in Threads :
        (~IsRequestCall(t) /\ res[t].kind = "response") =>
            LET acceptable == res[t].status \in 200..299 \/ res[t].status = 403
            IN  /\ pc[t] \in {"sc_write", "sc_locked", "sc_done"}
                /\ pc[t] = "sc_done" =>
                     /\ result[t].tag \in {"Ok", "Err"}
                     /\ result[t].tag = "Ok" <=> (acceptable /\ res[t].csrf # None)
                     /\ ~acceptable => result[t] = Err("Invalid cookie")
                     /\ (acceptable /\ res[t].csrf = None) =>
                            result[t] = Err("Failed to fetch X-CSRF-TOKEN")
                /\ pc[t] \in {"sc_write", "sc_locked"} =>
                     (acceptable /\ res[t].csrf # None)

\* C6 (amended): as claimed, but a call with a good probe returns Ok only if its
\* new client could be built: when ClientBuilder::build fails the call panics
\* (line 78), and that is the one way a call that got a probe response ends without
\* a result. A returned call has Ok exactly when its probe was good.
C6_AuthOutcomeAmended ==
    \A t \in Threads :
        (~IsRequestCall(t) /\ res[t].kind = "response") =>
            LET acceptable == res[t].status \in 200..299 \/ res[t].status = 403
            IN  /\ pc[t] \in {"sc_write", "sc_locked", "sc_done", "panicked"}
                /\ pc[t] = "sc_done" =>
                     /\ result[t].tag \in {"Ok", "Err"}
                     /\ result[t].tag = "Ok" <=> (acceptable /\ res[t].csrf # None)
                     /\ ~acceptable => result[t] = Err("Invalid cookie")
                     /\ (acceptable /\ res[t].csrf = None) =>
                            result[t] = Err("Failed to fetch X-CSRF-TOKEN")
                /\ pc[t] \in {"sc_write", "sc_locked"} =>
                     (acceptable /\ res[t].csrf # None)
                /\ pc[t] = "panicked" =>
                     /\ acceptable /\ res[t].csrf # None
                     /\ result[t] = Panic("Failed to build HTTP client")

\* One call returned Ok on a 403 probe with the token; another, whose probe was
\* good as well, has panicked on build().
C6_Witness ==
    \E t, u \in Threads :
        /\ pc[t] = "sc_done" /\ res[t].status = 403 /\ result[t].tag = "Ok"
        /\ pc[u] = "panicked" /\ ProbeGood(res[u])
        /\ result[u] = Panic("Failed to build HTTP client")

\* C7 (as claimed): while the last committed swap is that of a set_cookie call, a
\* request in flight carries the Cookie header equal to that call's cookie and an
\* anti-forgery header that is non-empty and equal to that call's probe token.
C7_DispatchCarriesCredentials ==
    \A t \in Threads :
        (pc[t] = "rq_sent" /\ lastCommit.op = "set_cookie") =>
            /\ HasCookie(sent[t][1]) /\ sent[t][1][COOKIE] = lastCommit.cookie
            /\ HasToken(sent[t][1]) /\ sent[t][1][X_CSRF_TOKEN] = lastCommit.token
            /\ sent[t][1][X_CSRF_TOKEN] # ""

\* C7 (amended): while the last committed swap is that of a set_cookie call, HTTP
\* holds exactly that call's cookie and probe token (which may be empty) as default
\* headers, with the cookie store on, and a request in flight carries a Cookie and
\* an anti-forgery header: each is the session's unless the request brings its own
\* header of that name, which is then the one sent.
C7_DispatchCarriesCredentialsAmended ==
    lastCommit.op = "set_cookie" =>
        /\ HTTP.client.cookie_store
        /\ DOMAIN HTTP.client.default_headers = {COOKIE, X_CSRF_TOKEN}
        /\ HTTP.client.default_headers[COOKIE] = lastCommit.cookie
        /\ HTTP.client.default_headers[X_CSRF_TOKEN] = lastCommit.token
        /\ \A t \in Threads :
            pc[t] = "rq_sent" =>
                LET own == IF data[t].headers = None THEN HeaderMapNew
                           ELSE data[t].headers[1]
                IN  /\ DOMAIN sent[t][1] = {COOKIE, X_CSRF_TOKEN} \cup DOMAIN own
                    /\ \A n \in DOMAIN own : sent[t][1][n] = own[n]
                    /\ ~HasCookie(own) => sent[t][1][COOKIE] = lastCommit.cookie
                    /\ ~HasToken(own) => sent[t][1][X_CSRF_TOKEN] = lastCommit.token

\* A request without headers of its own is in flight after a set_cookie that got a
\* non-empty token, the caller of which has its Ok.
C7_Witness ==
    \E t, u \in Threads :
        /\ pc[u] = "sc_done" /\ result[u].tag = "Ok"
        /\ lastCommit.op = "set_cookie" /\ lastCommit.token # ""
        /\ pc[t] = "rq_sent" /\ data[t].headers = None
        /\ sent[t][1][COOKIE] = lastCommit.cookie

\* C8: remove_cookie never fails (no thread ever panics on the lock, and the call
\* returns Ok(())), sends nothing, and its swap leaves HTTP the fresh anonymous
\* client; while that swap is the last one committed, a request in flight carries
\* only its own headers, so neither the session cookie nor an anti-forgery header.
C8_Deauthenticate ==
    /\ ~poisoned
    /\ \A t \in Threads :
        /\ pc[t] = "panicked" =>
              result[t].err \notin {"Failed to modify HTTP client", "Failed to read HTTP client"}
        /\ pc[t] \in {"rc_write", "rc_locked", "rc_done"} =>
              (sends[t] = 0 /\ sent[t] = None)
        /\ pc[t] = "rc_done" => result[t] = Ok(Unit)
    /\ lastCommit.op = "remove_cookie" =>
        /\ HTTP = HttpClientNew
        /\ \A t \in Threads :
            pc[t] = "rq_sent" =>
                /\ ~HasToken(sent[t][1])
                /\ sent[t][1] = (IF data[t].headers = None THEN HeaderMapNew
                                 ELSE data[t].headers[1])

\* A set_cookie returned Ok, a remove_cookie committed after it, and a request
\* without headers of its own is in flight.
C8_Witness ==
    \E t, u \in Threads :
        /\ pc[u] = "sc_done" /\ result[u].tag = "Ok"
        /\ lastCommit.op = "remove_cookie"
        /\ pc[t] = "rq_sent" /\ data[t].headers = None /\ sent[t][1] = HeaderMapNew

\* C9: a request whose send failed returns Err of the transport error (Err of the
\* builder error when the request could not even be built); one answered
\* with a 2xx status returns Ok of the body decoded as T when it decodes, and Err of
\* the decode error when it does not, an error envelope in the body or not; it never
\* panics.
C9_SuccessClassification ==
    \A t \in Threads :
        (IsRequestCall(t) /\ pc[t] \in {"rq_done", "panicked"}) =>
            /\ res[t].kind = "error" => result[t] = Err(TransportErrorText)
            /\ res[t].kind = "builder" => result[t] = Err(BuilderErrorText)
            /\ (res[t].kind = "response" /\ res[t].status \in 200..299) =>
                  /\ pc[t] = "rq_done"
                  /\ DecodeAs(data[t].T, res[t].body) # None =>
                        result[t] = Ok(DecodeAs(data[t].T, res[t].body)[1])
                  /\ DecodeAs(data[t].T, res[t].body) = None =>
                        result[t] = Err(DecodeErrorText)

\* A 2xx answer whose body is an error envelope was asked for as a User and gave the
\* decode error; another 2xx answer decoded and gave Ok.
C9_Witness ==
    \E t, u \in Threads :
        /\ pc[t] = "rq_done" /\ data[t].T = "User" /\ res[t].kind = "response"
        /\ res[t].status = 200 /\ res[t].body.kind = "errors"
        /\ Len(res[t].body.errors) >= 1
        /\ result[t] = Err(DecodeErrorText)
        /\ pc[u] = "rq_done" /\ res[u].kind = "response" /\ res[u].status = 200
        /\ result[u].tag = "Ok" /\ result[u].val.type = "User"

\* C10: while the write guard is held nobody holds a read guard; a request has its
\* read guard from the moment it reads HTTP until send() has returned, and HTTP is
\* all that time the configuration it read; HTTP changes only under the write guard.
C10_ReadersWriterExclusion ==
    /\ writer # None => readers = {}
    /\ \A t \in Threads :
        /\ t \in readers <=> pc[t] = "rq_sent"
        /\ pc[t] = "rq_sent" => view[t] = Some(HTTP)
        /\ writer = Some(t) <=> pc[t] \in {"sc_locked", "rc_locked"}

\* Every thread holds a read guard at the same time.
C10_Witness == readers = Threads /\ NumThreads >= 2

\* The default headers of the configuration the last committed swap installed.
CommittedHeaders ==
    IF lastCommit.op = "set_cookie"
    THEN [n \in {COOKIE, X_CSRF_TOKEN} |->
            IF n = COOKIE THEN lastCommit.cookie ELSE lastCommit.token]
    ELSE HeaderMapNew

\* C11: a set_cookie call holds no guard while its probe is in flight or while it
\* waits for the lock; a request waiting to read is held up only by a thread that is
\* inside a swap (between taking the write guard and dropping it); and the default
\* headers a request sends are those of the last swap that committed, never those of
\* a set_cookie that has not committed yet.
C11_ProbeOutsideLock ==
    \A t \in Threads :
        /\ pc[t] \in {"sc_sent", "sc_write"} => (writer # Some(t) /\ t \notin readers)
        /\ (pc[t] = "rq_read" /\ \A x \in Threads : pc[x] \notin {"sc_locked", "rc_locked"})
              => ENABLED request_send(t, "Ok")
        /\ pc[t] = "rq_sent" =>
              \A n \in {COOKIE, X_CSRF_TOKEN} :
                  (data[t].headers = None \/ n \notin DOMAIN data[t].headers[1]) =>
                      /\ n \in DOMAIN sent[t][1] <=> n \in DOMAIN CommittedHeaders
                      /\ n \in DOMAIN sent[t][1] => sent[t][1][n] = CommittedHeaders[n]

\* While the probe of a first set_cookie is in flight, a request has been sent on
\* the anonymous configuration, answered, and has returned Ok.
C11_Witness ==
    \E t, u \in Threads :
        /\ pc[u] = "sc_sent" /\ lastCommit = Fresh
        /\ pc[t] = "rq_done" /\ sends[t] = 1 /\ result[t].tag = "Ok"

\* C12: HTTP starts anonymous and every step that changes it is the commit of a
\* set_cookie call that returns Ok, after which it is authenticated, or the commit of
\* a remove_cookie call, after which it is anonymous; no step of a request and no
\* step of a set_cookie that fails changes it.
C12_OnlyListedTransitions ==
    /\ Anonymous(HTTP.client)
    /\ [][HTTP' # HTTP =>
            \E t \in Threads :
                \/ /\ pc[t] = "sc_locked" /\ pc'[t] = "sc_done"
                   /\ result'[t] = Ok(Unit)
                   /\ Authenticated(HTTP'.client) /\ HTTP'.client.cookie_store
                \/ /\ pc[t] = "rc_locked" /\ pc'[t] = "rc_done"
                   /\ Anonymous(HTTP'.client)
        ]_vars

\* Both transitions have happened: a set_cookie returned Ok and a remove_cookie
\* committed after it, while a request has returned too.
C12_Witness ==
    \E t, u \in Threads :
        /\ pc[t] = "sc_done" /\ result[t].tag = "Ok"
        /\ pc[u] = "rc_done" /\ lastCommit.op = "remove_cookie"
        /\ Anonymous(HTTP.client)

\* C14 (as claimed): every set_cookie or request call that has ended, however it
\* ended, has performed exactly one network send. (A set_cookie call given a cookie
\* that is no header value panics at line 54 with nothing sent.)
C14_ExactlyOneSend ==
    \A t \in Threads :
        pc[t] \in {"sc_done", "rq_done", "panicked"} => sends[t] = 1

\* C19: the swap of a set_cookie call installs exactly the cookie the call was given
\* and the token its own probe returned, whatever other set_cookie calls are under
\* way; HTTP holds at every moment the headers of the swap that committed last.
C19_CookieTokenPairing ==
    /\ [](HTTP.client.default_headers = CommittedHeaders)
    /\ [][\A t \in Threads :
            (pc[t] = "sc_locked" /\ pc'[t] # pc[t]) =>
                /\ DOMAIN HTTP'.client.default_headers = {COOKIE, X_CSRF_TOKEN}
                /\ HTTP'.client.default_headers[COOKIE] = cookie[t]
                /\ HTTP'.client.default_headers[X_CSRF_TOKEN] = res[t].csrf[1]
        ]_vars

\* One set_cookie has committed and returned while another, with another cookie and
\* another token from its own probe, holds the write guard.
C19_Witness ==
    \E t, u \in Threads :
        /\ pc[t] = "sc_done" /\ result[t].tag = "Ok"
        /\ lastCommit.op = "set_cookie" /\ lastCommit.token = res[t].csrf[1]
        /\ pc[u] = "sc_locked"
        /\ cookie[u] # lastCommit.cookie /\ res[u].csrf[1] # lastCommit.token

\* C20: the lock is never poisoned: no thread that panicked holds or held a guard
\* when it did (the panics are those of lines 54, 61, 78 and 116), a thread inside
\* the swap has its probe, its checks and its new client behind it, and no call
\* ever fails on the lock.
C20_NeverPoisoned ==
    /\ ~poisoned
    /\ \A t \in Threads :
        /\ pc[t] = "panicked" =>
              /\ writer # Some(t) /\ t \notin readers
              /\ result[t].err \in {"unwrap on Err: InvalidHeaderValue",
                                    "unwrap on Err: reqwest::Error",
                                    "Failed to build HTTP client", "Unknown error"}
        /\ pc[t] = "sc_locked" => (ProbeGood(res[t]) /\ sends[t] = 1)

\* One thread has panicked on the construction of its new client, another in the
\* decoding of an answer, and the lock is free and sound.
C20_Witness ==
    \E t, u \in Threads :
        /\ pc[t] = "panicked" /\ result[t].err = "Failed to build HTTP client"
        /\ pc[u] = "panicked" /\ result[u].err = "Unknown error"
        /\ writer = None /\ readers = {} /\ ~poisoned

\* C15: a set_cookie that commits over an authenticated configuration replaces it
\* whole: the default headers are then exactly this call's cookie and the token of
\* this call's probe, the cookie store is on, and no stored cookie is left.
C15_ReauthReplacesAll ==
    [][\A t \in Threads :
          (pc[t] = "sc_locked" /\ pc'[t] = "sc_done" /\ Authenticated(HTTP.client)) =>
              /\ DOMAIN HTTP'.client.default_headers = {COOKIE, X_CSRF_TOKEN}
              /\ HTTP'.client.default_headers[COOKIE] = cookie[t]
              /\ HTTP'.client.default_headers[X_CSRF_TOKEN] = res[t].csrf[1]
              /\ HTTP'.client.cookie_store
              /\ jar' = {}]_vars

\* A second set_cookie holds the write guard with its probe answered, over an
\* authenticated configuration with another cookie, another token and a stored
\* cookie; its commit is the one step left to it.
C15_Witness ==
    \E t \in Threads :
        /\ pc[t] = "sc_locked" /\ writer = Some(t)
        /\ Authenticated(HTTP.client)
        /\ HTTP.client.default_headers[COOKIE] # cookie[t]
        /\ HTTP.client.default_headers[X_CSRF_TOKEN] # res[t].csrf[1]
        /\ jar # {}
        /\ ENABLED set_cookie_commit(t)

\* C16: the request a call has in flight carries every header of data.headers with
\* its value, and every default header of the configuration it read whose name
\* data.headers does not have; without data.headers it carries exactly the default
\* headers; without data.body its body is the empty string.
C16_OutboundRequest ==
    \A t \in Threads :
        pc[t] = "rq_sent" =>
            LET own == data[t].headers
                d == view[t][1].client.default_headers
                h == sent[t][1]
            IN  /\ own # None => \A n \in DOMAIN own[1] : n \in DOMAIN h /\ h[n] = own[1][n]
                /\ \A n \in DOMAIN d :
                      (own = None \/ n \notin DOMAIN own[1]) => n \in DOMAIN h /\ h[n] = d[n]
                /\ own = None => h = d
                /\ data[t].body = None => sent_body[t] = Some("")

\* Two requests in flight on an authenticated configuration: one with an extra
\* header and no body, which carries the cookie, the token and the extra header; one
\* with a cookie header of its own, which carries that cookie and the token.
C16_Witness ==
    \E t, u \in Threads :
        /\ pc[t] = "rq_sent" /\ pc[u] = "rq_sent"
        /\ Authenticated(HTTP.client)
        /\ data[t].headers # None /\ DOMAIN data[t].headers[1] = {ACCEPT}
        /\ data[t].body = None /\ sent_body[t] = Some("")
        /\ DOMAIN sent[t][1] = {ACCEPT, COOKIE, X_CSRF_TOKEN}
        /\ data[u].headers # None /\ DOMAIN data[u].headers[1] = {COOKIE}
        /\ sent[u][1][COOKIE] = OwnCookie /\ X_CSRF_TOKEN \in DOMAIN sent[u][1]

\* What every UserClient method does with its one dispatch, whatever the method: one
\* request dispatched, an Err returned as it came, and an Ok value that is the
\* decoded value, one field of it, or (for the two batch methods) a map from it.
UserMethodOutcome ==
    /\ Len(call.reqs) = 1
    /\ call.res.tag = "Err" => call.ret = call.res
    /\ call.res.tag = "Ok" =>
          /\ call.ret.tag = "Ok"
          /\ CASE call.name \in {"fetch", "authenticated", "partial"} ->
                      call.ret.val = call.res.val
               [] call.name = "id" -> call.ret.val = call.res.val.id
               [] call.name \in {"search", "username_history"} ->
                      call.ret.val = call.res.val.data
               [] call.name = "fetch_many" ->
                      DOMAIN call.ret.val =
                          {call.res.val.data[i].id : i \in DOMAIN call.res.val.data}
               [] call.name = "find_many" ->
                      /\ DOMAIN call.ret.val =
                            {call.res.val.data[i].username : i \in DOMAIN call.res.val.data}
                      /\ \A k \in DOMAIN call.ret.val : \E i \in DOMAIN call.res.val.data :
                            /\ call.res.val.data[i].username = k
                            /\ call.res.val.data[i].id = call.ret.val[k]

\* C17: every UserClient method dispatches exactly once, returns the dispatch's Err
\* unchanged and on Ok a projection of the decoded value; the map fetch_many returns
\* has the pair id -> username of every user of the data list.
C17_UserMethods ==
    call.name # "none" =>
        /\ UserMethodOutcome
        /\ (call.name = "fetch_many" /\ call.res.tag = "Ok") =>
              \A i \in DOMAIN call.res.val.data :
                  /\ call.res.val.data[i].id \in DOMAIN call.ret.val
                  /\ call.ret.val[call.res.val.data[i].id] = call.res.val.data[i].username

\* C17, amended: as above, but of the users of the data list that share an id the
\* map fetch_many returns has the username of the last one only.
C17_UserMethodsAmended ==
    call.name # "none" =>
        /\ UserMethodOutcome
        /\ (call.name = "fetch_many" /\ call.res.tag = "Ok") =>
              LET users == call.res.val.data
              IN  \A i \in DOMAIN users :
                      (\A j \in DOMAIN users : j > i => users[j].id # users[i].id) =>
                          /\ users[i].id \in DOMAIN call.ret.val
                          /\ call.ret.val[users[i].id] = users[i].username

\* fetch_many has returned the map of a data list in which one id comes twice, with
\* two usernames: the map has that id alone, with the second username.
C17_Witness ==
    /\ call.name = "fetch_many" /\ call.res.tag = "Ok" /\ Len(call.reqs) = 1
    /\ LET users == call.res.val.data
       IN  /\ Len(users) = 2
           /\ users[1].id = users[2].id /\ users[1].username # users[2].username
           /\ DOMAIN call.ret.val = {users[2].id}
           /\ call.ret.val[users[2].id] = users[2].username

\* What holds from a remove_cookie's return until the next swap: the configuration is
\* anonymous, nothing is stored, and a request in flight carries its own headers only.
AnonymousSinceRemove ==
    lastCommit.op = "remove_cookie" =>
        /\ Anonymous(HTTP.client) /\ jar = {}
        /\ \A t \in Threads :
              pc[t] = "rq_sent" =>
                  sent[t][1] = IF data[t].headers = None THEN HeaderMapNew
                               ELSE data[t].headers[1]

\* C18: after remove_cookie has returned the configuration is anonymous and requests
\* carry no credentials, until a set_cookie commits that was called after that
\* return: a set_cookie that was under way when remove_cookie returned does not
\* commit.
C18_DeauthSticks ==
    /\ []AnonymousSinceRemove
    /\ [][\A t \in Threads : (pc[t] = "sc_locked" /\ pc'[t] = "sc_done") => t \notin stale]_vars

\* C18, amended: after remove_cookie has returned the configuration is anonymous and
\* requests carry no credentials until the next set_cookie commits, whenever that
\* set_cookie was called; the first change after the return is such a commit.
C18_DeauthUntilNextCommit ==
    /\ []AnonymousSinceRemove
    /\ [][(lastCommit.op = "remove_cookie" /\ HTTP' # HTTP) =>
              /\ lastCommit'.op = "set_cookie"
              /\ \E t \in Threads : pc[t] = "sc_locked" /\ pc'[t] = "sc_done"
              /\ Authenticated(HTTP'.client)]_vars

\* A set_cookie whose probe was under way when remove_cookie returned has committed
\* since: remove_cookie's caller has its Ok and the configuration is authenticated.
C18_Witness ==
    \E t, u \in Threads :
        /\ t \in stale /\ pc[t] = "sc_done" /\ result[t] = Ok(Unit)
        /\ pc[u] = "rc_done" /\ result[u] = Ok(Unit)
        /\ lastCommit.op = "set_cookie" /\ Authenticated(HTTP.client)

SpecUsers == Init /\ [][NextUsers]_vars

Spec == Init /\ [][Next]_vars

\* ------------------------------------------------------------- liveness
\* The inputs of FairSpec: no guard of a step reads a value, so one input is kept
\* for each way a step can go.
FairCookies == {<<99, 49>>, <<99, 10>>}
FairProbes ==
    {TransportError,
     [kind |-> "response", status |-> 200, csrf |-> Some("tokA")],
     [kind |-> "response", status |-> 404, csrf |-> None]}
FairBodies ==
    {[kind |-> "garbage", id |-> 0, errors |-> <<>>],
     [kind |-> "errors", id |-> 0, errors |-> <<>>]}

NextFair ==
    \E t \in FairThreads :
        \/ \E c \in FairCookies : set_cookie_send(t, c)
        \/ \E r \in FairProbes, built \in BuildOutcomes : set_cookie_recv(t, r, built)
        \/ set_cookie_write(t)
        \/ set_cookie_commit(t)
        \/ remove_cookie_call(t)
        \/ remove_cookie_write(t)
        \/ remove_cookie_commit(t)
        \/ request_call(t, "Value", None, None)
        \/ \E req \in RequestBuilds : request_send(t, req)
        \/ \E r \in SendOutcomes : request_recv(t, r, None)
        \/ \E body \in FairBodies : request_json(t, body)
        \/ Return(t)

\* The steps of a thread that wait for the network only, or for nothing: a send or a
\* body read that returns, and the assignment under a write guard already held. At
\* most one of them is possible for a thread at a time.
NetworkOrSwapStep(t) ==
    \/ \E r \in FairProbes, built \in BuildOutcomes : set_cookie_recv(t, r, built)
    \/ \E r \in SendOutcomes : request_recv(t, r, None)
    \/ \E body \in FairBodies : request_json(t, body)
    \/ set_cookie_commit(t)
    \/ remove_cookie_commit(t)

\* The steps of a thread that take a guard of the lock.
GuardStep(t) ==
    \/ set_cookie_write(t)
    \/ remove_cookie_write(t)
    \/ \E req \in RequestBuilds : request_send(t, req)

\* What the code and its threads give without any promise of the lock: every
\* network call returns (the claim's first premise), a thread inside a swap finishes
\* it, and a thread whose guard stays free for it takes it. Callers are not obliged
\* to make calls or to pick up results.
Fairness ==
    \A t \in FairThreads :
        /\ WF_vars(NetworkOrSwapStep(t))
        /\ WF_vars(GuardStep(t))

InitFair == InitOf(FairThreads)

FairSpec == InitFair /\ [][NextFair]_vars /\ Fairness

InCall ==
    {"sc_sent", "sc_write", "sc_locked", "rc_write", "rc_locked", "rq_read", "rq_sent",
     "rq_json"}
Ended == {"sc_done", "rc_done", "rq_done", "panicked"}
WaitsForGuard == {"sc_write", "rc_write", "rq_read"}

\* Another thread than t is handed a guard of the lock.
Overtaken(t) == \E u \in FairThreads \ {t} : GuardStep(u)

\* The claim's second premise, which std::sync::RwLock does not promise: the lock
\* is scheduled fairly, that is, no thread waits for its guard for ever while
\* guards are handed to other threads again and again.
LockScheduledFairly ==
    \A t \in FairThreads :
        <>[](pc[t] \in WaitsForGuard) => <>[][~Overtaken(t)]_vars

\* C13: with network calls that return and a lock that is scheduled fairly, every
\* call that is under way ends: a set_cookie or remove_cookie waiting for the write
\* guard gets it however many requests overlap, and a request waiting for its read
\* guard gets it.
C13_EveryCallEnds ==
    LockScheduledFairly =>
        \A t \in FairThreads : (pc[t] \in InCall) ~> (pc[t] \in Ended)

\* Two requests are in flight, each with its read guard, while a third thread
\* waits for the write guard.
C13_Witness ==
    \E t, u, w \in FairThreads :
        /\ t # u /\ {t, u} \subseteq readers
        /\ pc[t] = "rq_sent" /\ pc[u] = "rq_sent"
        /\ pc[w] \in {"sc_write", "rc_write"}

====
